---- MODULE Spec2Model ----
(***************************************************************************)
(* State-machine model of src/bulk_sender.py: the batch workflow           *)
(* main_bulk_send (connectivity probe, driver start, login probes, contact *)
(* loading, per-contact sends, summary, teardown) and the per-contact send *)
(* protocol send_whatsapp_message with its retry loop and window cleanup.  *)
(*                                                                         *)
(* Every call into the browser driver may raise; a command that raises has *)
(* no effect on the browser.  A command that needs the current window      *)
(* raises when that window has been closed.  KeyboardInterrupt may arrive  *)
(* at any statement inside the try block of main_bulk_send.                *)
(***************************************************************************)
EXTENDS Integers, Sequences, FiniteSets, TLC

\* ------------------------------------------------------------------------
\* Program constants and model bounds
\* ------------------------------------------------------------------------
RETRY_LIMIT == 2
MinPhoneLen == 10

MaxRows == 2
MaxRetry == 3
MaxPieces == 2

\* ------------------------------------------------------------------------
\* Strings are modelled as sequences of one-character strings
\* ------------------------------------------------------------------------
Digits == {"0", "1", "2", "3", "4", "5", "6", "7", "8", "9"}

PhoneA == <<"+", "1", " ", "5", "5", "5", " ", "1", "2", "3", " ", "4", "5", "6", "7">>
PhoneB == <<"9", "8", "7", "6", "5", "4", "3", "2", "1", "0">>
PhoneBad == <<"5", "5", "5", "-", "1", "2", "3">>

\* a row of the file as csv.DictReader yields it; absent names the columns
\* for which a short line has no field (their value is None)
SampleRows ==
    { [Phone |-> PhoneA, Name |-> "Ana", Message |-> "m", absent |-> {}],
      [Phone |-> PhoneB, Name |-> "Bo", Message |-> "m", absent |-> {}],
      [Phone |-> PhoneBad, Name |-> "Cy", Message |-> "m", absent |-> {}],
      [Phone |-> PhoneB, Name |-> "Di", Message |-> "", absent |-> {"Message"}] }

RowSeqs == UNION { [1..n -> SampleRows] : n \in 0..MaxRows }

RECURSIVE Replace(_, _)
\* str.replace(ch, ""): drop every occurrence of the character ch
Replace(s, ch) ==
    IF s = <<>> THEN <<>>
    ELSE IF Head(s) = ch THEN Replace(Tail(s), ch)
         ELSE <<Head(s)>> \o Replace(Tail(s), ch)

Whitespace == {" ", "\t"}

RECURSIVE LStrip(_)
LStrip(s) == IF s # <<>> /\ Head(s) \in Whitespace THEN LStrip(Tail(s)) ELSE s

RECURSIVE RStrip(_)
RStrip(s) ==
    IF s # <<>> /\ s[Len(s)] \in Whitespace THEN RStrip(SubSeq(s, 1, Len(s) - 1)) ELSE s

\* str.strip()
Strip(s) == RStrip(LStrip(s))

\* row.get("Phone", "").strip(), then .replace("+", "").replace(" ", "")
CleanPhone(raw) == Replace(Replace(Strip(raw), "+"), " ")

\* row.get(column, "") is None for a column the line has no field for, and
\* None.strip() raises
RowRaises(row) == row.absent # {}

\* the loop over the rows raises at the first such row
LoadRaises(rows) == \E i \in 1..Len(rows) : RowRaises(rows[i])

\* str.isdigit(): non-empty and every character a digit
IsDigit(s) == s # <<>> /\ \A i \in 1..Len(s) : s[i] \in Digits

\* phone.isdigit() and len(phone) >= 10
PhoneAccepted(phone) == IsDigit(phone) /\ Len(phone) >= MinPhoneLen

RECURSIVE load_contacts_from_csv(_)
\* the list of valid contacts, in row order
load_contacts_from_csv(rows) ==
    IF rows = <<>> THEN <<>>
    ELSE LET row == Head(rows)
             cleaned == CleanPhone(row.Phone)
             rest == load_contacts_from_csv(Tail(rows))
         IN IF PhoneAccepted(cleaned)
            THEN <<[name |-> row.Name, phone |-> cleaned, message |-> row.Message]>> \o rest
            ELSE rest

\* ------------------------------------------------------------------------
\* Browser: windows in creation order, the current window handle
\* ------------------------------------------------------------------------
Range(s) == { s[i] : i \in 1..Len(s) }

RECURSIVE Remove(_, _)
Remove(s, h) ==
    IF s = <<>> THEN <<>>
    ELSE IF Head(s) = h THEN Tail(s)
         ELSE <<Head(s)>> \o Remove(Tail(s), h)

Last(s) == s[Len(s)]

VARIABLES
    pc,             \* position in main_bulk_send
    spc,            \* position in send_whatsapp_message
    pending,        \* how main_bulk_send leaves its try block
    exitCode,       \* process exit status, -1 while running
    csv_rows,       \* rows of contacts.csv
    contacts,       \* contacts returned by load_contacts_from_csv
    idx,            \* position of the batch loop in contacts
    success_count,
    summary,        \* <<success_count, len(contacts)>> once reported
    windows,        \* driver.window_handles
    active,         \* the driver's current window handle
    launches,       \* browser processes created
    quitCount,      \* driver.quit() calls
    retry_limit,
    is_reply,
    attempt,
    main_window,
    netChecks,      \* connectivity probes made
    netOK,
    probeResults,   \* outcomes of wait_for_whatsapp_login, in order
    prompted,
    noContactsLogged,
    loadState,      \* outcome of load_contacts_from_csv
    sendLog,        \* phones for which send_whatsapp_message was invoked
    lastResult,     \* value returned by the last finished invocation
    returnedTrue,   \* invocations that returned True
    returnedFalse,  \* invocations that returned False
    attemptsStarted,
    attemptsFailed,
    submits,        \* successful submit actions in this invocation
    delays,         \* rate-limiting delays in this invocation
    sentCount,      \* messages submitted in the run
    escaped,        \* cause of an error that left send_whatsapp_message
    phone,          \* the phone argument of the current invocation
    interrupted,
    interruptedInBatch, \* KeyboardInterrupt arrived in the batch loop
    interruptedInSend,  \* ... while send_whatsapp_message was running
    ki_logged,
    err_logged,
    sendsAtInterrupt,   \* sendLog when KeyboardInterrupt arrived
    sentAtInterrupt,    \* sentCount when KeyboardInterrupt arrived
    steps,          \* steps of the current attempt, from the submit on
    rpc,            \* position of the rendering harness
    template,       \* template_str given to render_message_template
    rname,          \* its name argument
    rphone,         \* its phone argument
    rendered,       \* the result of rendering the template
    twice           \* the result of rendering that result again

mainVars == <<pc, pending, exitCode, csv_rows, contacts, idx, success_count, summary,
              launches, quitCount, netChecks, netOK, probeResults, prompted,
              noContactsLogged, loadState, interrupted, interruptedInBatch,
              interruptedInSend, ki_logged, err_logged,
              sendsAtInterrupt, sentAtInterrupt>>
browserVars == <<windows, active>>
retVars == <<lastResult, returnedTrue, returnedFalse>>
sendVars == <<spc, retry_limit, is_reply, attempt, main_window, phone, steps, sendLog, retVars,
              attemptsStarted, attemptsFailed, submits, delays, sentCount, escaped>>
renderVars == <<rpc, template, rname, rphone, rendered, twice>>
vars == <<mainVars, browserVars, sendVars, renderVars>>

\* the current window is open
ActiveOpen == active \in Range(windows)

\* window handles are opaque names: a new window gets a name that no open
\* window has and that the program holds no reference to
NewHandle ==
    CHOOSE h \in 1..(Len(windows) + 3) : h \notin Range(windows) \cup {active, main_window}

\* ------------------------------------------------------------------------
\* Initial states
\* ------------------------------------------------------------------------
InitCommon ==
    /\ pending = "none"
    /\ exitCode = -1
    /\ idx = 1
    /\ success_count = 0
    /\ summary = <<>>
    /\ quitCount = 0
    /\ attempt = 0
    /\ main_window = 0
    /\ probeResults = <<>>
    /\ prompted = FALSE
    /\ noContactsLogged = FALSE
    /\ loadState = "none"
    /\ lastResult = FALSE
    /\ returnedTrue = 0
    /\ returnedFalse = 0
    /\ attemptsStarted = 0
    /\ attemptsFailed = 0
    /\ submits = 0
    /\ delays = 0
    /\ steps = <<>>
    /\ sentCount = 0
    /\ escaped = "none"
    /\ interrupted = FALSE
    /\ interruptedInBatch = FALSE
    /\ interruptedInSend = FALSE
    /\ ki_logged = FALSE
    /\ err_logged = FALSE
    /\ sendsAtInterrupt = <<>>
    /\ sentAtInterrupt = 0

\* no rendering under study
RenderIdle ==
    /\ rpc = "idle"
    /\ template = <<>>
    /\ rname = <<>>
    /\ rphone = <<>>
    /\ rendered = <<>>
    /\ twice = <<>>

\* the process at the entry of main_bulk_send, for any content of contacts.csv
Init ==
    /\ InitCommon
    /\ pc = "check_net"
    /\ spc = "idle"
    /\ csv_rows \in RowSeqs
    /\ contacts = <<>>
    /\ windows = <<>>
    /\ active = 0
    /\ launches = 0
    /\ netChecks = 0
    /\ netOK = FALSE
    /\ retry_limit = RETRY_LIMIT
    /\ is_reply = FALSE
    /\ phone = <<>>
    /\ sendLog = <<>>
    /\ RenderIdle

\* one call of send_whatsapp_message on a logged-in session, for any
\* retry_limit and either mode
InitSend ==
    /\ InitCommon
    /\ pc = "harness"
    /\ spc = "anchor"
    /\ csv_rows = <<>>
    /\ contacts = <<>>
    /\ windows = <<1>>
    /\ active = 1
    /\ launches = 1
    /\ netChecks = 1
    /\ netOK = TRUE
    /\ retry_limit \in 0..MaxRetry
    /\ is_reply \in BOOLEAN
    /\ phone = CleanPhone(PhoneA)
    /\ sendLog = <<CleanPhone(PhoneA)>>
    /\ RenderIdle

\* ------------------------------------------------------------------------
\* main_bulk_send
\* ------------------------------------------------------------------------
histVars == <<sendLog, retVars, attemptsStarted, attemptsFailed, submits, delays,
              sentCount, escaped>>
sendLocals == <<retry_limit, is_reply, attempt, main_window, phone>>
irqVars == <<interrupted, interruptedInBatch, interruptedInSend, ki_logged,
            sendsAtInterrupt, sentAtInterrupt>>
batchVars == <<csv_rows, contacts, idx, success_count, summary, noContactsLogged,
              loadState>>
authVars == <<probeResults, prompted>>
netVars == <<netChecks, netOK>>

\* a plausible slip: the result of the connectivity probe is not acted upon
AfterConnectivity_ignored(ok) == "init_driver"

\* if not check_internet_connection(): exit(1)
AfterConnectivity(ok) == IF ok THEN "init_driver" ELSE "done"

check_internet_connection ==
    /\ pc = "check_net"
    /\ \E ok \in BOOLEAN :
        /\ netChecks' = netChecks + 1
        /\ netOK' = ok
        /\ pc' = AfterConnectivity(ok)
        /\ exitCode' = IF ok THEN exitCode ELSE 1
    /\ UNCHANGED <<spc, pending, launches, quitCount, err_logged, batchVars,
                   authVars, irqVars, browserVars, sendLocals, histVars>>
    /\ UNCHANGED renderVars
    /\ UNCHANGED steps

\* initialize_driver, webdriver.Chrome(...): the browser process is created,
\* or the constructor raises and main_bulk_send ends with the error
initialize_driver_create ==
    /\ pc = "init_driver"
    /\ \E ok \in BOOLEAN :
        IF ok
        THEN /\ launches' = launches + 1
             /\ windows' = <<NewHandle>>
             /\ active' = NewHandle
             /\ pc' = "init_config"
             /\ UNCHANGED exitCode
        ELSE /\ pc' = "done"
             /\ exitCode' = 1
             /\ UNCHANGED <<launches, browserVars>>
    /\ UNCHANGED <<spc, pending, quitCount, err_logged, batchVars, authVars,
                   netVars, irqVars, sendLocals, histVars>>
    /\ UNCHANGED renderVars
    /\ UNCHANGED steps

\* initialize_driver, set_page_load_timeout / implicitly_wait /
\* maximize_window: a failure here leaves initialize_driver, which is
\* called outside the try block
initialize_driver_configure ==
    /\ pc = "init_config"
    /\ \E ok \in BOOLEAN :
        IF ok
        THEN pc' = "get" /\ UNCHANGED exitCode
        ELSE pc' = "done" /\ exitCode' = 1
    /\ UNCHANGED <<spc, pending, launches, quitCount, err_logged, batchVars,
                   authVars, netVars, irqVars, browserVars, sendLocals, histVars>>
    /\ UNCHANGED renderVars
    /\ UNCHANGED steps

\* driver.get("https://web.whatsapp.com")
driver_get ==
    /\ pc = "get"
    /\ \E ok \in BOOLEAN : pc' = IF ok THEN "probe1" ELSE "handler_exc"
    /\ UNCHANGED <<spc, pending, exitCode, launches, quitCount, err_logged,
                   batchVars, authVars, netVars, irqVars, browserVars,
                   sendLocals, histVars>>
    /\ UNCHANGED renderVars
    /\ UNCHANGED steps

ProbeOutcomes == {"found", "timeout", "error"}

\* a plausible slip: the test on the first probe is inverted
AfterFirstProbe_inverted(r) ==
    CASE r = "found" -> "prompt"
      [] r = "timeout" -> "load"
      [] OTHER -> "handler_exc"

\* main_bulk_send: where control goes after the first probe
AfterFirstProbe(r) ==
    CASE r = "found" -> "load"
      [] r = "timeout" -> "prompt"
      [] OTHER -> "handler_exc"

\* if not wait_for_whatsapp_login(driver): prompt_qr_scan(driver)
wait_for_whatsapp_login_first ==
    /\ pc = "probe1"
    /\ \E r \in ProbeOutcomes :
        /\ probeResults' = Append(probeResults, r)
        /\ pc' = AfterFirstProbe(r)
    /\ UNCHANGED <<spc, pending, exitCode, launches, quitCount, err_logged,
                   batchVars, prompted, netVars, irqVars, browserVars,
                   sendLocals, histVars>>
    /\ UNCHANGED renderVars
    /\ UNCHANGED steps

\* prompt_qr_scan: log the prompt, input()
prompt_qr_scan_prompt ==
    /\ pc = "prompt"
    /\ prompted' = TRUE
    /\ \E ok \in BOOLEAN : pc' = IF ok THEN "probe2" ELSE "handler_exc"
    /\ UNCHANGED <<spc, pending, exitCode, launches, quitCount, err_logged,
                   batchVars, probeResults, netVars, irqVars, browserVars,
                   sendLocals, histVars>>
    /\ UNCHANGED renderVars
    /\ UNCHANGED steps

\* a plausible slip: the result of the second probe is not acted upon
AfterSecondProbe_ignored(r) == IF r = "error" THEN "handler_exc" ELSE "load"

\* prompt_qr_scan: where control goes after the second probe
AfterSecondProbe(r) ==
    CASE r = "found" -> "load"
      [] r = "timeout" -> "qr_quit"
      [] OTHER -> "handler_exc"

\* prompt_qr_scan: if not wait_for_whatsapp_login(driver)
prompt_qr_scan_probe ==
    /\ pc = "probe2"
    /\ \E r \in ProbeOutcomes :
        /\ probeResults' = Append(probeResults, r)
        /\ pc' = AfterSecondProbe(r)
    /\ UNCHANGED <<spc, pending, exitCode, launches, quitCount, err_logged,
                   batchVars, prompted, netVars, irqVars, browserVars,
                   sendLocals, histVars>>
    /\ UNCHANGED renderVars
    /\ UNCHANGED steps

\* prompt_qr_scan: log the login failure, driver.quit()
prompt_qr_scan_quit ==
    /\ pc = "qr_quit"
    /\ quitCount' = quitCount + 1
    /\ windows' = <<>>
    /\ active' = 0
    /\ pc' = "qr_exit"
    /\ UNCHANGED <<spc, pending, exitCode, launches, err_logged, batchVars,
                   authVars, netVars, irqVars, sendLocals, histVars>>
    /\ UNCHANGED renderVars
    /\ UNCHANGED steps

\* prompt_qr_scan: exit(1) raises SystemExit inside the try block of
\* main_bulk_send; no except clause matches, the finally clause runs
prompt_qr_scan_exit ==
    /\ pc = "qr_exit"
    /\ pending' = "sysexit"
    /\ pc' = "finally"
    /\ UNCHANGED <<spc, exitCode, launches, quitCount, err_logged, batchVars,
                   authVars, netVars, irqVars, browserVars, sendLocals, histVars>>
    /\ UNCHANGED renderVars
    /\ UNCHANGED steps

\* a plausible slip: no early return for an empty contact list
AfterLoad_noReturn(cs) == "loop"

\* if not contacts: return
AfterLoad(cs) == IF cs = <<>> THEN "finally" ELSE "loop"

\* contacts = load_contacts_from_csv(CSV_FILE); if not contacts: return;
\* success_count = 0.  Opening the file may raise, and so does a row with a
\* missing field; the error is logged and raised again.
load_contacts ==
    /\ pc = "load"
    /\ \E ok \in BOOLEAN :
        IF ok /\ ~LoadRaises(csv_rows)
        THEN LET cs == load_contacts_from_csv(csv_rows)
             IN /\ contacts' = cs
                /\ noContactsLogged' = (cs = <<>>)
                /\ pc' = AfterLoad(cs)
                /\ pending' = IF cs = <<>> THEN "return" ELSE pending
                /\ loadState' = "loaded"
        ELSE /\ pc' = "handler_exc"
             /\ loadState' = IF ok THEN "row_error" ELSE "file_error"
             /\ UNCHANGED <<contacts, noContactsLogged, pending>>
    /\ idx' = 1
    /\ success_count' = 0
    /\ UNCHANGED <<spc, exitCode, launches, quitCount, err_logged, csv_rows,
                   summary, authVars, netVars, irqVars, browserVars, sendLocals,
                   histVars>>
    /\ UNCHANGED renderVars
    /\ UNCHANGED steps

\* for contact in contacts: send_whatsapp_message(driver, name, phone, message)
batch_loop ==
    /\ pc = "loop"
    /\ IF idx <= Len(contacts)
       THEN /\ pc' = "send"
            /\ spc' = "anchor"
            /\ phone' = contacts[idx].phone
            /\ sendLog' = Append(sendLog, contacts[idx].phone)
       ELSE /\ pc' = "summary"
            /\ UNCHANGED <<spc, phone, sendLog>>
    /\ UNCHANGED <<pending, exitCode, launches, quitCount, err_logged, batchVars,
                   authVars, netVars, irqVars, browserVars, retry_limit, is_reply,
                   attempt, main_window, retVars, attemptsStarted, attemptsFailed,
                   submits, delays, sentCount, escaped>>
    /\ UNCHANGED renderVars
    /\ UNCHANGED steps

\* the frame of send_whatsapp_message is gone: its locals are dead, and the
\* counters kept about the invocation start afresh
FrameDropped ==
    /\ attempt' = 0
    /\ main_window' = 0
    /\ phone' = <<>>
    /\ attemptsStarted' = 0
    /\ attemptsFailed' = 0
    /\ submits' = 0
    /\ delays' = 0
    /\ steps' = <<>>

\* a plausible slip: every finished send is counted as a success
CountSuccess_always(count, result) == count + 1

\* if send_whatsapp_message(...): success_count += 1
CountSuccess(count, result) == IF result THEN count + 1 ELSE count

batch_result ==
    /\ pc = "send"
    /\ spc = "returned"
    /\ success_count' = CountSuccess(success_count, lastResult)
    /\ idx' = idx + 1
    /\ pc' = "loop"
    /\ spc' = "idle"
    /\ FrameDropped
    /\ UNCHANGED <<pending, exitCode, launches, quitCount, err_logged, csv_rows,
                   contacts, summary, noContactsLogged, loadState, authVars, netVars,
                   irqVars, browserVars, retry_limit, is_reply, sendLog, retVars,
                   sentCount, escaped>>
    /\ UNCHANGED renderVars

\* an error that left send_whatsapp_message reaches "except Exception"
batch_send_raised ==
    /\ pc = "send"
    /\ spc = "raised"
    /\ pc' = "handler_exc"
    /\ spc' = "idle"
    /\ FrameDropped
    /\ UNCHANGED <<pending, exitCode, launches, quitCount, err_logged, batchVars,
                   authVars, netVars, irqVars, browserVars, retry_limit, is_reply,
                   sendLog, retVars, sentCount, escaped>>
    /\ UNCHANGED renderVars

\* log(f"Sent {success_count}/{len(contacts)} messages.")
report_summary ==
    /\ pc = "summary"
    /\ summary' = <<success_count, Len(contacts)>>
    /\ pending' = "return"
    /\ pc' = "finally"
    /\ UNCHANGED <<spc, exitCode, launches, quitCount, err_logged, csv_rows,
                   contacts, idx, success_count, noContactsLogged, loadState,
                   authVars,
                   netVars, irqVars, browserVars, sendLocals, histVars>>
    /\ UNCHANGED renderVars
    /\ UNCHANGED steps

TryBlock == {"get", "probe1", "prompt", "probe2", "qr_quit", "qr_exit", "load",
             "loop", "send", "summary"}

\* a plausible slip: the retry loop catches every exception ("except:"), so
\* an interruption inside an attempt is treated as a failed attempt
KeyboardInterrupt_caughtInSend ==
    /\ pc \in TryBlock
    /\ spc # "raised"
    /\ ~interrupted
    /\ interrupted' = TRUE
    /\ interruptedInBatch' = (pc \in {"loop", "send", "summary"})
    /\ interruptedInSend' = (spc \notin {"idle", "returned"})
    /\ sendsAtInterrupt' = sendLog
    /\ sentAtInterrupt' = sentCount
    /\ IF spc \in {"open", "switch_new", "wait_input", "enter_key", "send_button",
                   "notify", "close_tab", "switch_back"}
       THEN /\ spc' = "c_handles"
            /\ attemptsFailed' = attemptsFailed + 1
            /\ UNCHANGED <<pc, attempt, main_window, phone, attemptsStarted,
                           submits, delays, steps>>
       ELSE /\ pc' = "handler_ki"
            /\ spc' = "idle"
            /\ FrameDropped
    /\ UNCHANGED <<pending, exitCode, launches, quitCount, err_logged, ki_logged,
                   batchVars, authVars, netVars, browserVars, retry_limit,
                   is_reply, sendLog, retVars, sentCount, escaped>>
    /\ UNCHANGED renderVars

\* KeyboardInterrupt arrives at a statement of the try block, also inside
\* send_whatsapp_message, whose "except Exception" clauses do not catch it
KeyboardInterrupt ==
    /\ pc \in TryBlock
    /\ spc # "raised"
    /\ ~interrupted
    /\ interrupted' = TRUE
    /\ interruptedInBatch' = (pc \in {"loop", "send", "summary"})
    /\ interruptedInSend' = (spc \notin {"idle", "returned"})
    /\ sendsAtInterrupt' = sendLog
    /\ sentAtInterrupt' = sentCount
    /\ pc' = "handler_ki"
    /\ spc' = "idle"
    /\ FrameDropped
    /\ UNCHANGED <<pending, exitCode, launches, quitCount, err_logged, ki_logged,
                   batchVars, authVars, netVars, browserVars, retry_limit,
                   is_reply, sendLog, retVars, sentCount, escaped>>
    /\ UNCHANGED renderVars

\* a plausible slip: the interruption is caught per contact, inside the
\* loop, and the batch goes on with the next contact
except_KeyboardInterrupt_inLoop ==
    /\ pc = "handler_ki"
    /\ ki_logged' = TRUE
    /\ pc' = IF contacts # <<>> THEN "loop" ELSE "finally"
    /\ pending' = IF contacts # <<>> THEN pending ELSE "return"
    /\ UNCHANGED <<spc, exitCode, launches, quitCount, err_logged, interrupted,
                   interruptedInBatch, interruptedInSend, sendsAtInterrupt,
                   sentAtInterrupt, batchVars, authVars,
                   netVars, browserVars, sendLocals, histVars>>
    /\ UNCHANGED renderVars
    /\ UNCHANGED steps

\* except KeyboardInterrupt: log("Bulk send interrupted by user.")
except_KeyboardInterrupt ==
    /\ pc = "handler_ki"
    /\ ki_logged' = TRUE
    /\ pending' = "return"
    /\ pc' = "finally"
    /\ UNCHANGED <<spc, exitCode, launches, quitCount, err_logged, interrupted,
                   interruptedInBatch, interruptedInSend, sendsAtInterrupt,
                   sentAtInterrupt, batchVars, authVars,
                   netVars, browserVars, sendLocals, histVars>>
    /\ UNCHANGED renderVars
    /\ UNCHANGED steps

\* except Exception as e: log(...); raise
except_Exception ==
    /\ pc = "handler_exc"
    /\ err_logged' = TRUE
    /\ pending' = "exception"
    /\ pc' = "finally"
    /\ UNCHANGED <<spc, exitCode, launches, quitCount, batchVars, authVars,
                   netVars, irqVars, browserVars, sendLocals, histVars>>
    /\ UNCHANGED renderVars
    /\ UNCHANGED steps

\* status of the process once the finally clause has run
ExitStatus(p) == IF p = "return" THEN 0 ELSE 1

\* finally: log(...); driver.quit()
finally_quit ==
    /\ pc = "finally"
    /\ quitCount' = quitCount + 1
    /\ windows' = <<>>
    /\ active' = 0
    /\ exitCode' = ExitStatus(pending)
    /\ pc' = "done"
    /\ UNCHANGED <<spc, pending, launches, err_logged, batchVars, authVars,
                   netVars, irqVars, sendLocals, histVars>>
    /\ UNCHANGED renderVars
    /\ UNCHANGED steps

\* ------------------------------------------------------------------------
\* send_whatsapp_message
\* ------------------------------------------------------------------------

\* render the message, build the url, main_window =
\* driver.current_window_handle (outside the try statement)
send_read_anchor ==
    /\ spc = "anchor"
    /\ \E ok \in BOOLEAN :
        IF ok /\ ActiveOpen
        THEN /\ main_window' = active
             /\ attempt' = 1
             /\ spc' = "loop_head"
             /\ UNCHANGED escaped
        ELSE /\ escaped' = "browser"
             /\ spc' = "raised"
             /\ UNCHANGED <<main_window, attempt>>
    /\ attemptsStarted' = 0
    /\ attemptsFailed' = 0
    /\ submits' = 0
    /\ delays' = 0
    /\ steps' = <<>>
    /\ UNCHANGED <<mainVars, browserVars, retry_limit, is_reply, phone, sendLog,
                   retVars, sentCount>>
    /\ UNCHANGED renderVars

\* a plausible slip: one attempt too many, range(1, retry_limit + 2)
InRange_offByOne(a, limit) == a >= 1 /\ a < limit + 2

\* attempt in range(1, retry_limit + 1)
InRange(a, limit) == a >= 1 /\ a < limit + 1

\* for attempt in range(1, retry_limit + 1):
send_loop_head ==
    /\ spc = "loop_head"
    /\ IF InRange(attempt, retry_limit)
       THEN /\ attemptsStarted' = attemptsStarted + 1
            /\ spc' = "open"
       ELSE /\ spc' = "fail_notify"
            /\ UNCHANGED attemptsStarted
    /\ UNCHANGED <<mainVars, browserVars, sendLocals, sendLog, retVars,
                   attemptsFailed, submits, delays, sentCount, escaped>>
    /\ UNCHANGED renderVars
    /\ steps' = <<>>

\* except Exception as e: log the failed attempt
EnterExcept ==
    /\ attemptsFailed' = attemptsFailed + 1
    /\ spc' = "c_handles"

\* driver.execute_script("window.open(url, '_blank');")
send_open_tab ==
    /\ spc = "open"
    /\ \E ok \in BOOLEAN :
        IF ok /\ ActiveOpen
        THEN /\ windows' = Append(windows, NewHandle)
             /\ spc' = "switch_new"
             /\ UNCHANGED attemptsFailed
        ELSE /\ EnterExcept
             /\ UNCHANGED windows
    /\ UNCHANGED <<mainVars, active, sendLocals, sendLog, retVars,
                   attemptsStarted, submits, delays, sentCount, escaped>>
    /\ UNCHANGED renderVars
    /\ UNCHANGED steps

\* driver.switch_to.window(driver.window_handles[-1])
send_switch_new ==
    /\ spc = "switch_new"
    /\ \E ok \in BOOLEAN :
        IF ok /\ windows # <<>>
        THEN /\ active' = Last(windows)
             /\ spc' = "wait_input"
             /\ UNCHANGED attemptsFailed
        ELSE /\ EnterExcept
             /\ UNCHANGED active
    /\ UNCHANGED <<mainVars, windows, sendLocals, sendLog, retVars,
                   attemptsStarted, submits, delays, sentCount, escaped>>
    /\ UNCHANGED renderVars
    /\ UNCHANGED steps

\* input_box = wait.until(presence_of_element_located(...)); time.sleep(...)
send_wait_input ==
    /\ spc = "wait_input"
    /\ \E ok \in BOOLEAN :
        IF ok /\ ActiveOpen
        THEN spc' = "enter_key" /\ UNCHANGED attemptsFailed
        ELSE EnterExcept
    /\ UNCHANGED <<mainVars, browserVars, sendLocals, sendLog, retVars,
                   attemptsStarted, submits, delays, sentCount, escaped>>
    /\ UNCHANGED renderVars
    /\ UNCHANGED steps

\* the message of this invocation has been submitted to the recipient
Submitted ==
    /\ submits' = submits + 1
    /\ sentCount' = sentCount + 1
    /\ spc' = "notify"

\* a plausible slip: no fallback, a failed ENTER fails the attempt
EnterFailedTarget_noFallback == "c_handles"

\* except Exception: the send-button fallback follows a failed ENTER
EnterFailedTarget == "send_button"

\* try: input_box.send_keys(Keys.ENTER)  except Exception: (fallback)
send_enter_key ==
    /\ spc = "enter_key"
    /\ \E ok \in BOOLEAN :
        IF ok /\ ActiveOpen
        THEN /\ Submitted
             /\ steps' = Append(steps, "enter")
        ELSE /\ spc' = EnterFailedTarget
             /\ steps' = Append(steps, "enter_failed")
             /\ UNCHANGED <<submits, sentCount>>
    /\ UNCHANGED <<mainVars, browserVars, sendLocals, sendLog, retVars,
                   attemptsStarted, attemptsFailed, delays, escaped>>
    /\ UNCHANGED renderVars

\* send_button = wait.until(element_to_be_clickable(...)); send_button.click()
send_click_button ==
    /\ spc = "send_button"
    /\ \E ok \in BOOLEAN :
        IF ok /\ ActiveOpen
        THEN /\ Submitted
             /\ steps' = Append(steps, "click")
             /\ UNCHANGED attemptsFailed
        ELSE /\ EnterExcept
             /\ steps' = Append(steps, "click_failed")
             /\ UNCHANGED <<submits, sentCount>>
    /\ UNCHANGED <<mainVars, browserVars, sendLocals, sendLog, retVars,
                   attemptsStarted, delays, escaped>>
    /\ UNCHANGED renderVars

\* log("Sent to ..."); beep_success()
send_notify ==
    /\ spc = "notify"
    /\ \E ok \in BOOLEAN :
        IF ok
        THEN /\ spc' = "close_tab"
             /\ steps' = Append(steps, "notify")
             /\ UNCHANGED attemptsFailed
        ELSE /\ EnterExcept
             /\ UNCHANGED steps
    /\ UNCHANGED <<mainVars, browserVars, sendLocals, sendLog, retVars,
                   attemptsStarted, submits, delays, sentCount, escaped>>
    /\ UNCHANGED renderVars

\* time.sleep(2); driver.close()
send_close_tab ==
    /\ spc = "close_tab"
    /\ \E ok \in BOOLEAN :
        IF ok /\ ActiveOpen
        THEN /\ windows' = Remove(windows, active)
             /\ spc' = "switch_back"
             /\ steps' = Append(steps, "close")
             /\ UNCHANGED attemptsFailed
        ELSE /\ EnterExcept
             /\ UNCHANGED steps
             /\ UNCHANGED windows
    /\ UNCHANGED <<mainVars, active, sendLocals, sendLog, retVars,
                   attemptsStarted, submits, delays, sentCount, escaped>>
    /\ UNCHANGED renderVars

\* driver.switch_to.window(main_window)
send_switch_back ==
    /\ spc = "switch_back"
    /\ \E ok \in BOOLEAN :
        IF ok /\ main_window \in Range(windows)
        THEN /\ active' = main_window
             /\ spc' = "delay"
             /\ steps' = Append(steps, "switch")
             /\ UNCHANGED attemptsFailed
        ELSE /\ EnterExcept
             /\ UNCHANGED steps
             /\ UNCHANGED active
    /\ UNCHANGED <<mainVars, windows, sendLocals, sendLog, retVars,
                   attemptsStarted, submits, delays, sentCount, escaped>>
    /\ UNCHANGED renderVars

\* a plausible slip: the delay is applied in reply mode too
DelaysAfter_always(d, reply) == d + 1

\* if not is_reply: time.sleep(random.uniform(MIN_DELAY_SEC, MAX_DELAY_SEC))
DelaysAfter(d, reply) == IF ~reply THEN d + 1 ELSE d

\* the rate-limiting delay, then return True
send_return_true ==
    /\ spc = "delay"
    /\ delays' = DelaysAfter(delays, is_reply)
    /\ steps' = IF delays' > delays THEN Append(steps, "delay") ELSE steps
    /\ lastResult' = TRUE
    /\ returnedTrue' = returnedTrue + 1
    /\ UNCHANGED returnedFalse
    /\ spc' = "returned"
    /\ UNCHANGED <<mainVars, browserVars, sendLocals, sendLog, attemptsStarted,
                   attemptsFailed, submits, sentCount, escaped>>
    /\ UNCHANGED renderVars

\* if len(driver.window_handles) > 1
ExtraTabOpen(ws) == Len(ws) > 1

\* except handler, inner try: read driver.window_handles; the steps of the
\* failed attempt are over
cleanup_count_windows ==
    /\ spc = "c_handles"
    /\ \E ok \in BOOLEAN :
        spc' = IF ~ok THEN "c_sleep"
               ELSE IF ExtraTabOpen(windows) THEN "c_close" ELSE "c_switch"
    /\ UNCHANGED <<mainVars, browserVars, sendLocals, histVars>>
    /\ UNCHANGED renderVars
    /\ steps' = <<>>

\* except handler, inner try: driver.close() closes the current window
cleanup_close ==
    /\ spc = "c_close"
    /\ \E ok \in BOOLEAN :
        IF ok /\ ActiveOpen
        THEN /\ windows' = Remove(windows, active)
             /\ spc' = "c_switch"
        ELSE /\ spc' = "c_sleep"
             /\ UNCHANGED windows
    /\ UNCHANGED <<mainVars, active, sendLocals, histVars>>
    /\ UNCHANGED renderVars
    /\ UNCHANGED steps

\* except handler, inner try: driver.switch_to.window(main_window);
\* except Exception: pass
cleanup_switch ==
    /\ spc = "c_switch"
    /\ \E ok \in BOOLEAN :
        IF ok /\ main_window \in Range(windows)
        THEN active' = main_window
        ELSE UNCHANGED active
    /\ spc' = "c_sleep"
    /\ UNCHANGED <<mainVars, windows, sendLocals, histVars>>
    /\ UNCHANGED renderVars
    /\ UNCHANGED steps

\* time.sleep(5), then the next value of the loop variable
cleanup_sleep ==
    /\ spc = "c_sleep"
    /\ attempt' = attempt + 1
    /\ spc' = "loop_head"
    /\ UNCHANGED <<mainVars, browserVars, retry_limit, is_reply, main_window,
                   phone, histVars>>
    /\ UNCHANGED renderVars
    /\ UNCHANGED steps

\* log("Failed to send ..."); beep_fail(); return False
send_return_false ==
    /\ spc = "fail_notify"
    /\ \E ok \in BOOLEAN :
        IF ok
        THEN /\ lastResult' = FALSE
             /\ returnedFalse' = returnedFalse + 1
             /\ spc' = "returned"
             /\ UNCHANGED escaped
        ELSE /\ escaped' = "notification"
             /\ spc' = "raised"
             /\ UNCHANGED <<lastResult, returnedFalse>>
    /\ UNCHANGED returnedTrue
    /\ UNCHANGED <<mainVars, browserVars, sendLocals, sendLog, attemptsStarted,
                   attemptsFailed, submits, delays, sentCount>>
    /\ UNCHANGED renderVars
    /\ UNCHANGED steps

\* ------------------------------------------------------------------------
\* render_message_template: string.Template(template_str).safe_substitute
\* ------------------------------------------------------------------------
Letters ==
    {"a", "b", "c", "d", "e", "f", "g", "h", "i", "j", "k", "l", "m", "n", "o",
     "p", "q", "r", "s", "t", "u", "v", "w", "x", "y", "z",
     "A", "B", "C", "D", "E", "F", "G", "H", "I", "J", "K", "L", "M", "N", "O",
     "P", "Q", "R", "S", "T", "U", "V", "W", "X", "Y", "Z"}

\* the identifier pattern [_a-z][_a-z0-9]*, matched without regard to case
IdStart == Letters \cup {"_"}
IdChar == IdStart \cup Digits

KeyName == <<"n", "a", "m", "e">>
KeyPhone == <<"p", "h", "o", "n", "e">>
KeyDate == <<"d", "a", "t", "e">>
KeyTime == <<"t", "i", "m", "e">>
Keys == {KeyName, KeyPhone, KeyDate, KeyTime}

\* time.strftime('%Y-%m-%d') and time.strftime('%H:%M') at the time of the call
DateNow == <<"2", "0", "2", "6", "-", "1", "1", "-", "0", "4">>
TimeNow == <<"1", "2", ":", "3", "0">>

\* the keyword arguments of safe_substitute
Mapping(key, name, phoneArg) ==
    CASE key = KeyName -> name
      [] key = KeyPhone -> phoneArg
      [] key = KeyDate -> DateNow
      [] OTHER -> TimeNow

RECURSIVE IdRun(_, _)
\* number of identifier characters of s from position i on
IdRun(s, i) == IF i <= Len(s) /\ s[i] \in IdChar THEN 1 + IdRun(s, i + 1) ELSE 0

\* length of the longest identifier of s that starts at position i
IdLen(s, i) == IF i <= Len(s) /\ s[i] \in IdStart THEN IdRun(s, i) ELSE 0

\* a plausible slip: the delimiter is kept in front of the substituted value
Subst_keepsDelimiter(key, original, name, phoneArg) ==
    IF key \in Keys THEN <<"$">> \o Mapping(key, name, phoneArg) ELSE original

\* safe_substitute: a placeholder with a known key becomes its value, any
\* other placeholder is left as it is written
Subst(key, original, name, phoneArg) ==
    IF key \in Keys THEN Mapping(key, name, phoneArg) ELSE original

RECURSIVE RenderFrom(_, _, _, _)
\* the substitution of s from position i on: at each "$" the alternatives
\* "$$", "$identifier", "${identifier}" are tried in this order, and a "$"
\* that starts none of them stays
RenderFrom(s, i, name, phoneArg) ==
    IF i > Len(s) THEN <<>>
    ELSE IF s[i] # "$" THEN <<s[i]>> \o RenderFrom(s, i + 1, name, phoneArg)
    ELSE IF i + 1 <= Len(s) /\ s[i + 1] = "$"
         THEN <<"$">> \o RenderFrom(s, i + 2, name, phoneArg)
    ELSE LET n == IdLen(s, i + 1)
             b == IF i + 1 <= Len(s) /\ s[i + 1] = "{" THEN IdLen(s, i + 2) ELSE 0
         IN IF n > 0
            THEN Subst(SubSeq(s, i + 1, i + n), SubSeq(s, i, i + n), name, phoneArg)
                     \o RenderFrom(s, i + n + 1, name, phoneArg)
            ELSE IF b > 0 /\ i + 2 + b <= Len(s) /\ s[i + 2 + b] = "}"
            THEN Subst(SubSeq(s, i + 2, i + 1 + b), SubSeq(s, i, i + 2 + b), name, phoneArg)
                     \o RenderFrom(s, i + 3 + b, name, phoneArg)
            ELSE <<"$">> \o RenderFrom(s, i + 1, name, phoneArg)

render_message_template(template_str, name, phoneArg) ==
    RenderFrom(template_str, 1, name, phoneArg)

\* templates: up to MaxPieces pieces written one after the other
Pieces ==
    { <<"$", "$">>,
      <<"$", "{", "n", "a", "m", "e", "}">>,
      <<"$", "n", "a", "m", "e">>,
      <<"$", "{", "p", "h", "o", "n", "e", "}">>,
      <<"$", "{", "d", "a", "t", "e", "}">>,
      <<"$", "{", "f", "o", "o", "}">>,
      <<"$">>,
      <<"H", "i", " ">> }

RECURSIVE Concat(_)
Concat(ps) == IF ps = <<>> THEN <<>> ELSE Head(ps) \o Concat(Tail(ps))

Templates == { Concat(ps) : ps \in UNION { [1..n -> Pieces] : n \in 0..MaxPieces } }

SampleNames == { <<"A", "n", "a">>, <<"$", "p", "h", "o", "n", "e">>, <<"d", "a", "t", "e">> }

\* a rendering and the rendering of its result, for any template and name
InitRender ==
    /\ InitCommon
    /\ pc = "render"
    /\ spc = "idle"
    /\ csv_rows = <<>>
    /\ contacts = <<>>
    /\ windows = <<>>
    /\ active = 0
    /\ launches = 0
    /\ netChecks = 0
    /\ netOK = FALSE
    /\ retry_limit = RETRY_LIMIT
    /\ is_reply = FALSE
    /\ phone = <<>>
    /\ sendLog = <<>>
    /\ rpc = "start"
    /\ template \in Templates
    /\ rname \in SampleNames
    /\ rphone = CleanPhone(PhoneA)
    /\ rendered = <<>>
    /\ twice = <<>>

\* message = render_message_template(raw_message, name, phone)
render_once ==
    /\ rpc = "start"
    /\ rendered' = render_message_template(template, rname, rphone)
    /\ rpc' = "once"
    /\ UNCHANGED <<mainVars, browserVars, sendVars, template, rname, rphone, twice>>
    /\ UNCHANGED steps

\* the rendered message given to render_message_template again
render_again ==
    /\ rpc = "once"
    /\ twice' = render_message_template(rendered, rname, rphone)
    /\ rpc' = "twice"
    /\ UNCHANGED <<mainVars, browserVars, sendVars, template, rname, rphone, rendered>>
    /\ UNCHANGED steps

\* ------------------------------------------------------------------------
\* Specifications
\* ------------------------------------------------------------------------
Next ==
    \/ check_internet_connection
    \/ initialize_driver_create
    \/ initialize_driver_configure
    \/ driver_get
    \/ wait_for_whatsapp_login_first
    \/ prompt_qr_scan_prompt
    \/ prompt_qr_scan_probe
    \/ prompt_qr_scan_quit
    \/ prompt_qr_scan_exit
    \/ load_contacts
    \/ batch_loop
    \/ batch_result
    \/ batch_send_raised
    \/ report_summary
    \/ KeyboardInterrupt
    \/ except_KeyboardInterrupt
    \/ except_Exception
    \/ finally_quit
    \/ send_read_anchor
    \/ send_loop_head
    \/ send_open_tab
    \/ send_switch_new
    \/ send_wait_input
    \/ send_enter_key
    \/ send_click_button
    \/ send_notify
    \/ send_close_tab
    \/ send_switch_back
    \/ send_return_true
    \/ cleanup_count_windows
    \/ cleanup_close
    \/ cleanup_switch
    \/ cleanup_sleep
    \/ send_return_false

Spec == Init /\ [][Next]_vars

NextSend ==
    \/ send_read_anchor
    \/ send_loop_head
    \/ send_open_tab
    \/ send_switch_new
    \/ send_wait_input
    \/ send_enter_key
    \/ send_click_button
    \/ send_notify
    \/ send_close_tab
    \/ send_switch_back
    \/ send_return_true
    \/ cleanup_count_windows
    \/ cleanup_close
    \/ cleanup_switch
    \/ cleanup_sleep
    \/ send_return_false

SpecSend == InitSend /\ [][NextSend]_vars

NextRender ==
    \/ render_once
    \/ render_again

SpecRender == InitRender /\ [][NextRender]_vars

TypeOK ==
    /\ exitCode \in {-1, 0, 1}
    /\ quitCount \in 0..2
    /\ returnedTrue + returnedFalse <= Len(sendLog)

\* ------------------------------------------------------------------------
\* Properties
\* ------------------------------------------------------------------------

\* C1: a send with retry_limit = N starts at most N attempts; it returns
\* False only when N attempts were started and all N failed; it returns True
\* at the first attempt that succeeds, every attempt before it having failed
\* and none being started after it.
C1_BoundedAttempts ==
    /\ attemptsStarted <= retry_limit
    /\ attemptsFailed <= attemptsStarted
    /\ (spc = "returned" /\ ~lastResult) =>
            (attemptsStarted = retry_limit /\ attemptsFailed = retry_limit)
    /\ (spc = "returned" /\ lastResult) =>
            (attemptsStarted >= 1 /\ attemptsFailed = attemptsStarted - 1)

\* C1 witness: the second of three allowed attempts succeeded and the send
\* returned True with the third attempt never started.
C1_Witness ==
    /\ spc = "returned" /\ lastResult
    /\ retry_limit = 3 /\ attemptsStarted = 2 /\ attemptsFailed = 1

\* C2 (as claimed): whenever the send returns False, no submit action
\* succeeded in any attempt of the invocation.
C2_SubmitLeadsToSent ==
    (spc = "returned" /\ ~lastResult) => submits = 0

\* C3 (as claimed): whenever the send has returned, the current window is the
\* anchor window that was current when the send was entered, and it is open.
C3_FocusOnAnchor ==
    spc = "returned" => (active = main_window /\ ActiveOpen)

\* C4 (as claimed): in every finished run that launched a browser,
\* driver.quit() was called exactly once.
C4_TeardownExactlyOnce ==
    (pc = "done" /\ launches >= 1) => quitCount = 1

\* C5 (as claimed): no failure of a browser interaction leaves
\* send_whatsapp_message as an error.
C5_NoBrowserErrorEscapes ==
    escaped # "browser"

\* C6 (as claimed): a batch that started and finished without an
\* interruption has invoked the send once for every contact, in list order.
C6_EveryContactOnceInOrder ==
    (pc = "done" /\ contacts # <<>> /\ ~interrupted) =>
        sendLog = [i \in 1..Len(contacts) |-> contacts[i].phone]

\* the rows of the file whose Phone, without "+" and spaces, is all digits
\* and at least ten characters long
ValidRows ==
    { i \in 1..Len(csv_rows) :
        LET raw == csv_rows[i].Phone
            kept == { j \in 1..Len(raw) : raw[j] \notin {"+", " "} }
        IN /\ \A j \in kept : raw[j] \in Digits
           /\ Cardinality(kept) >= 10 }

\* C7: once the summary is reported, succeeded is the number of sends that
\* returned True, total is the number of valid rows of the file,
\* 0 <= succeeded <= total, every contact's send has returned, and the
\* process then ends with exit code 0 whatever the number of failed sends.
C7_SummaryAndExitCode ==
    summary # <<>> =>
        /\ summary[1] = returnedTrue
        /\ summary[2] = Cardinality(ValidRows)
        /\ returnedTrue + returnedFalse = summary[2]
        /\ 0 <= summary[1] /\ summary[1] <= summary[2]
        /\ pc = "done" => exitCode = 0

\* C7 witness: a file with one valid and one invalid row, the only send
\* failed, the summary 0/1 was reported and the process ended with 0.
C7_Witness ==
    /\ pc = "done" /\ exitCode = 0
    /\ summary = <<0, 1>> /\ Len(csv_rows) = 2 /\ returnedFalse = 1

C9_ConnectivityFatal ==
    /\ netChecks <= 1
    /\ (netChecks >= 1 /\ ~netOK) =>
            /\ pc = "done" /\ exitCode = 1
            /\ launches = 0 /\ probeResults = <<>> /\ ~prompted
            /\ sendLog = <<>>

\* C9 witness: the connectivity probe failed.
C9_Witness ==
    netChecks = 1 /\ ~netOK /\ pc = "done"

\* C10: after a KeyboardInterrupt in the batch no further send is invoked
\* and no further message is submitted, the messages submitted before it
\* remain counted as sent, control is in the interrupt handler or behind
\* it, the notice is logged before the finally clause, and the run ends
\* with driver.quit() called.
C10_InterruptStopsBatch ==
    interruptedInBatch =>
        /\ sendLog = sendsAtInterrupt
        /\ sentCount = sentAtInterrupt
        /\ pc \in {"handler_ki", "finally", "done"} /\ spc = "idle"
        /\ pc \in {"finally", "done"} => ki_logged
        /\ pc = "done" => quitCount = 1

\* C10 witness: the batch was interrupted after a message had been
\* submitted and before the last contact's send, and teardown took place.
C10_Witness ==
    /\ interruptedInBatch /\ pc = "done" /\ ki_logged /\ quitCount = 1
    /\ sentAtInterrupt >= 1 /\ Len(sendsAtInterrupt) < Len(contacts)

\* C11 (as claimed): an interruption never aborts a running send: when the
\* batch has been interrupted, every send that was invoked has returned its
\* boolean result and the interruption did not arrive inside a send.
C11_InterruptOnlyBetweenContacts ==
    interruptedInBatch =>
        /\ ~interruptedInSend
        /\ returnedTrue + returnedFalse = Len(sendLog)

\* C12 (as claimed): the browser never has more than two windows open, and
\* between two sends and between two attempts of a send the only open window
\* is the current one, the anchor.
C12_AtMostOneContactTab ==
    /\ Len(windows) <= 2
    /\ (pc = "loop" \/ (pc = "send" /\ spc \in {"anchor", "loop_head", "returned"}))
            => windows = <<active>>

\* C19 (as claimed): within one invocation of the send the message is
\* submitted at most once.
C19_SubmittedAtMostOnce ==
    submits <= 1

\* C20 (as claimed): while the send runs, the anchor window it recorded on
\* entry stays open: no close it performs is applied to the anchor.
C20_AnchorNeverClosed ==
    spc \in {"loop_head", "open", "switch_new", "wait_input", "enter_key",
             "send_button", "notify", "close_tab", "switch_back", "delay",
             "c_handles", "c_close", "c_switch", "c_sleep", "fail_notify",
             "returned"}
        => main_window \in Range(windows)

\* C11 (amended): an interruption in the batch is handled by the except
\* clause around the loop and nowhere else; one that arrives while a send is
\* running aborts that send at once, so that this send has no boolean result
\* and every earlier send has one; one that arrives between sends finds
\* every invoked send returned.
C11_InterruptAbortsRunningSend ==
    interruptedInBatch =>
        /\ pc \in {"handler_ki", "finally", "done"} /\ spc = "idle"
        /\ returnedTrue + returnedFalse =
               Len(sendLog) - (IF interruptedInSend THEN 1 ELSE 0)
        /\ success_count <= returnedTrue

\* C11 witness: the interruption arrived inside a send after its message
\* had been submitted; the send was aborted with its contact tab still open.
C11_Witness ==
    /\ interruptedInSend /\ pc = "handler_ki"
    /\ returnedTrue + returnedFalse = Len(sendLog) - 1
    /\ sentCount >= 1 /\ Len(windows) = 2

\* C13: when loading yields no valid contact (no rows, or every row
\* rejected), that fact is reported, no send is ever invoked, no summary is
\* printed, no error is logged or raised, the driver is quit and the process
\* ends with status 0; the batch loop is entered only with a contact.
C13_EmptyListNoSends ==
    /\ (loadState = "loaded" /\ contacts = <<>>) =>
            /\ noContactsLogged
            /\ sendLog = <<>> /\ sentCount = 0 /\ summary = <<>>
            /\ pc \in {"finally", "done"} /\ pending = "return"
            /\ ~err_logged /\ escaped = "none"
            /\ pc = "done" => (exitCode = 0 /\ quitCount = 1)
    /\ pc \in {"loop", "send", "summary"} => contacts # <<>>

\* C13 witness: a file whose rows were all rejected; the run ended without
\* a send and with status 0.
C13_Witness ==
    /\ Len(csv_rows) = 2 /\ loadState = "loaded" /\ noContactsLogged
    /\ pc = "done" /\ exitCode = 0 /\ sendLog = <<>>

\* the characters of a Phone value other than "+" and space, in order
RECURSIVE KeptChars(_)
KeptChars(raw) ==
    IF raw = <<>> THEN <<>>
    ELSE IF Head(raw) \in {"+", " "} THEN KeptChars(Tail(raw))
         ELSE <<Head(raw)>> \o KeptChars(Tail(raw))

\* C14 (as claimed): no row ends ingestion, and once the file is read the
\* contacts are exactly the valid rows, in row order, each with its Phone
\* value stripped of "+" and spaces.
C14_RowsAcceptedIffValid ==
    /\ loadState # "row_error"
    /\ loadState = "loaded" =>
            /\ Len(contacts) = Cardinality(ValidRows)
            /\ \E f \in [1..Len(contacts) -> ValidRows] :
                   /\ \A j, k \in 1..Len(contacts) : j < k => f[j] < f[k]
                   /\ \A k \in 1..Len(contacts) :
                          contacts[k].phone = KeptChars(csv_rows[f[k]].Phone)

\* C15 (as claimed): rendering the rendered message again changes nothing,
\* for every template and name.
C15_RenderIdempotent ==
    rpc = "twice" => twice = rendered

NoDollar(s) == \A i \in 1..Len(s) : s[i] # "$"

\* the text of s at position i is exactly t
TextAt(s, i, t) == i + Len(t) - 1 <= Len(s) /\ SubSeq(s, i, i + Len(t) - 1) = t

\* every "$" of s begins a placeholder for name, phone, date or time
EveryDollarResolves(s) ==
    \A i \in 1..Len(s) :
        s[i] = "$" =>
            \E key \in Keys :
                \/ TextAt(s, i + 1, <<"{">> \o key \o <<"}">>)
                \/ /\ TextAt(s, i + 1, key)
                   /\ (i + Len(key) + 1 > Len(s) \/ s[i + Len(key) + 1] \notin IdChar)

\* C15 (amended): when every "$" of the template begins a placeholder for
\* name, phone, date or time and neither name nor phone contains a "$", the
\* rendered message contains no "$" and rendering it again changes nothing.
C15_RenderIdempotentWhenResolved ==
    (rpc = "twice" /\ EveryDollarResolves(template) /\ NoDollar(rname) /\ NoDollar(rphone))
        => (twice = rendered /\ NoDollar(rendered))

\* C15 witness: a template with a placeholder was rendered twice, the
\* first rendering replaced the placeholder and the second changed nothing.
C15_Witness ==
    /\ rpc = "twice" /\ EveryDollarResolves(template) /\ NoDollar(rname)
    /\ ~NoDollar(template) /\ rendered # template /\ twice = rendered

\* state of the authentication state machine, read off the probes made
AuthState ==
    IF probeResults # <<>> /\ Last(probeResults) = "found" THEN "AUTHENTICATED"
    ELSE IF Len(probeResults) = 2 /\ Last(probeResults) = "timeout" THEN "FAILED"
    ELSE IF probeResults # <<>> /\ probeResults[1] = "timeout" THEN "AWAITING_CREDENTIAL"
    ELSE "UNKNOWN"

\* the transitions of the authentication state machine
AuthTransitions ==
    { <<"UNKNOWN", "AUTHENTICATED">>, <<"UNKNOWN", "AWAITING_CREDENTIAL">>,
      <<"AWAITING_CREDENTIAL", "AUTHENTICATED">>, <<"AWAITING_CREDENTIAL", "FAILED">> }

\* what holds of the probes, the prompt and the batch in every state
AuthInvariant ==
    /\ Len(probeResults) <= 2
    /\ Len(probeResults) = 2 => prompted
    /\ (prompted \/ pc = "prompt") => (probeResults # <<>> /\ probeResults[1] = "timeout")
    /\ (pc \in {"load", "loop", "send", "summary"} \/ loadState # "none" \/ sendLog # <<>>)
            => AuthState = "AUTHENTICATED"
    /\ AuthState = "AUTHENTICATED" =>
            probeResults \in {<<"found">>, <<"timeout", "found">>}
    /\ AuthState = "FAILED" =>
            (probeResults = <<"timeout", "timeout">> /\ pc \notin {"probe1", "prompt", "probe2"})

\* C16: the authentication state changes only by UNKNOWN->AUTHENTICATED,
\* UNKNOWN->AWAITING_CREDENTIAL, AWAITING_CREDENTIAL->AUTHENTICATED and
\* AWAITING_CREDENTIAL->FAILED; at most two login probes are made, the
\* second only after the prompt; the prompt is reached only after the first
\* probe timed out; contacts are loaded and sends invoked only in state
\* AUTHENTICATED, and no probe, load or send follows FAILED.
C16_AuthStateMachine ==
    /\ []AuthInvariant
    /\ [][AuthState' # AuthState => <<AuthState, AuthState'>> \in AuthTransitions]_vars

\* C16 witness: the first probe timed out, the prompt was shown, the second
\* probe succeeded and a send was invoked.
C16_Witness ==
    /\ probeResults = <<"timeout", "found">> /\ prompted
    /\ AuthState = "AUTHENTICATED" /\ sendLog # <<>>

\* C17: in an attempt the send-button fallback is tried exactly when the
\* ENTER key-press raised: a fallback step is always preceded by the failed
\* ENTER, a failed ENTER is always followed by the fallback, a successful
\* ENTER never is; the attempt fails at the submit step only with both the
\* ENTER and the fallback failed, and goes on to the notification only with
\* one of them succeeded.
C17_FallbackIffEnterFailed ==
    /\ (\E i \in 1..Len(steps) : steps[i] \in {"click", "click_failed"})
            => (steps[1] = "enter_failed" /\ steps[2] \in {"click", "click_failed"})
    /\ (steps # <<>> /\ steps[1] = "enter_failed")
            => (IF Len(steps) = 1 THEN spc = "send_button"
                ELSE steps[2] \in {"click", "click_failed"})
    /\ (steps # <<>> /\ steps[1] = "enter")
            => \A i \in 1..Len(steps) : steps[i] \notin {"click", "click_failed", "enter_failed"}
    /\ (spc = "c_handles" /\ steps # <<>>
          /\ \A i \in 1..Len(steps) : steps[i] \notin {"enter", "click"})
            => steps = <<"enter_failed", "click_failed">>
    /\ spc = "notify" => steps \in {<<"enter">>, <<"enter_failed", "click">>}

\* C17 witness: ENTER raised, the fallback click succeeded and the attempt
\* went on to the notification.
C17_Witness ==
    spc = "notify" /\ steps = <<"enter_failed", "click">> /\ submits = 1

\* the steps of a successful attempt, in order
SuccessSteps(reply) ==
    { submit \o <<"notify", "close", "switch">> \o (IF reply THEN <<>> ELSE <<"delay">>) :
        submit \in {<<"enter">>, <<"enter_failed", "click">>} }

\* C18: a send that returns True has done, in this order, the submit, the
\* notification, the close of the contact tab, the switch to the anchor and,
\* only when is_reply is false, the rate-limiting delay: exactly one delay in
\* a non-reply send, with the focus on the anchor, and none in reply mode;
\* a send that has not returned True has made no delay.
C18_DelayAfterSuccess ==
    /\ (spc = "returned" /\ lastResult) =>
            /\ steps \in SuccessSteps(is_reply)
            /\ delays = (IF is_reply THEN 0 ELSE 1)
            /\ active = main_window
    /\ is_reply => delays = 0
    /\ ~(spc = "returned" /\ lastResult) => delays = 0

\* C18 witness: a non-reply send returned True on its second attempt after
\* one delay.
C18_Witness ==
    /\ spc = "returned" /\ lastResult /\ ~is_reply
    /\ delays = 1 /\ attemptsStarted = 2 /\ Last(steps) = "delay"
====
